---------------------------- MODULE Spec2Model ----------------------------
(* A model of src/contrib/data/batch_dataset.ts: BatchDataset, its stream   *)
(* of batches, makeDatasetBatch, batchConcat and shapeAndValues.            *)
EXTENDS Integers, Sequences, FiniteSets, TLC

(***************************************************************************)
(* Bounds of the model.                                                    *)
(***************************************************************************)
\* longest window handed to makeDatasetBatch on its own
MaxWin == 3
\* longest upstream record sequence of a Dataset
MaxLen == 3
\* largest batchSize given to the constructor
MaxBatchSize == 3

(***************************************************************************)
(* Values of a DatasetElement: number | number[] | Tensor | string, and    *)
(* undefined, which is what reading an absent key yields.                  *)
(***************************************************************************)
Num(n) == [kind |-> "number", n |-> n]
Arr(xs) == [kind |-> "array", xs |-> xs]
Ten(shape, vals) == [kind |-> "tensor", shape |-> shape, vals |-> vals]
Str(s) == [kind |-> "string", s |-> s]
Undefined == [kind |-> "undefined"]

\* the property order of the element objects of the model
KeyOrder == <<"a", "b">>

Range(s) == {s[i] : i \in 1..Len(s)}

RECURSIVE Product(_)
Product(s) == IF s = <<>> THEN 1 ELSE Head(s) * Product(Tail(s))

(***************************************************************************)
(* Float32Array storage: an entry is a float32 number or NaN.  Integers    *)
(* are stored rounded to the nearest float32 (24 bits of mantissa, ties to *)
(* even); strings go through ToNumber; undefined becomes NaN.              *)
(***************************************************************************)
NaN == [nan |-> TRUE, f |-> 0]
F32(x) == [nan |-> FALSE, f |-> x]

RECURSIVE FloorLog2(_)
FloorLog2(x) == IF x < 2 THEN 0 ELSE 1 + FloorLog2(x \div 2)

Abs(x) == IF x < 0 THEN -x ELSE x

ToFloat32(x) ==
  LET ax == Abs(x)
      e == FloorLog2(ax)
  IN IF e <= 23 THEN x
     ELSE LET q == 2 ^ (e - 23)
              m == ax \div q
              r == ax % q
              up == (2 * r > q) \/ (2 * r = q /\ m % 2 = 1)
              mag == (IF up THEN m + 1 ELSE m) * q
          IN IF x < 0 THEN -mag ELSE mag

\* Number(s) for the strings of the model: a numeral parses, other text is NaN
StringToNumber(s) == IF s = "7" THEN F32(7) ELSE NaN

\* the conversion TypedArray.prototype.set applies to each source entry
ToFloat32Entry(v) ==
  CASE v.kind = "number" -> F32(ToFloat32(v.n))
    [] v.kind = "string" -> StringToNumber(v.s)
    [] OTHER -> NaN

\* util.arraysEqual on shapes
arraysEqual(n1, n2) ==
  /\ Len(n1) = Len(n2)
  /\ \A i \in 1..Len(n1) : n1[i] = n2[i]

(***************************************************************************)
(* shapeAndValues                                                          *)
(***************************************************************************)
shapeAndValues(array) ==
  IF array.kind = "tensor"
    THEN [shape |-> array.shape,
          vals |-> [i \in 1..Len(array.vals) |-> Num(array.vals[i])]]
  ELSE IF array.kind = "array"
    THEN [shape |-> <<Len(array.xs)>>,
          vals |-> [i \in 1..Len(array.xs) |-> Num(array.xs[i])]]
  ELSE [shape |-> <<>>, vals |-> <<array>>]

(***************************************************************************)
(* batchConcat                                                             *)
(***************************************************************************)
ShapeError == "Elements must have the same shape to be batched"
RangeError == "RangeError: offset is out of bounds"
SanityError == "Batching failed to get a value for each element."

\* resultVals.set(aVals, offset)
TypedArraySet(resultVals, aVals, offset) ==
  [p \in 1..Len(resultVals) |->
     IF p > offset /\ p <= offset + Len(aVals)
       THEN ToFloat32Entry(aVals[p - offset])
       ELSE resultVals[p]]

\* the loop body with a fault: the shape comparison is left out
BatchConcatStepNoShapeCheck(acc, a, elementShape) ==
  LET sv == shapeAndValues(a) IN
  IF acc.thrown # "" THEN acc
  ELSE IF acc.offset + Len(sv.vals) > Len(acc.resultVals)
    THEN [acc EXCEPT !.thrown = RangeError]
  ELSE [thrown |-> "",
        resultVals |-> TypedArraySet(acc.resultVals, sv.vals, acc.offset),
        offset |-> acc.offset + Len(sv.vals)]

\* the loop body with a fault: the offset advances by one entry per element
BatchConcatStepOffsetByOne(acc, a, elementShape) ==
  LET sv == shapeAndValues(a) IN
  IF acc.thrown # "" THEN acc
  ELSE IF ~arraysEqual(sv.shape, elementShape)
    THEN [acc EXCEPT !.thrown = ShapeError]
  ELSE IF acc.offset + Len(sv.vals) > Len(acc.resultVals)
    THEN [acc EXCEPT !.thrown = RangeError]
  ELSE [thrown |-> "",
        resultVals |-> TypedArraySet(acc.resultVals, sv.vals, acc.offset),
        offset |-> acc.offset + 1]

\* one iteration of `for (const a of arrays)`
BatchConcatStep(acc, a, elementShape) ==
  LET sv == shapeAndValues(a) IN
  IF acc.thrown # "" THEN acc
  ELSE IF ~arraysEqual(sv.shape, elementShape)
    THEN [acc EXCEPT !.thrown = ShapeError]
  ELSE IF acc.offset + Len(sv.vals) > Len(acc.resultVals)
    THEN [acc EXCEPT !.thrown = RangeError]
  ELSE [thrown |-> "",
        resultVals |-> TypedArraySet(acc.resultVals, sv.vals, acc.offset),
        offset |-> acc.offset + Len(sv.vals)]

RECURSIVE BatchConcatLoop(_, _, _, _)
BatchConcatLoop(arrays, elementShape, i, acc) ==
  IF i > Len(arrays) THEN acc
  ELSE BatchConcatLoop(arrays, elementShape, i + 1,
                       BatchConcatStep(acc, arrays[i], elementShape))

batchConcat(arrays) ==
  LET elementShape == shapeAndValues(arrays[1]).shape
      batchShape == <<Len(arrays)>> \o elementShape
      zeros == [p \in 1..Product(batchShape) |-> F32(0)]
      done == BatchConcatLoop(arrays, elementShape, 1,
                              [thrown |-> "", resultVals |-> zeros, offset |-> 0])
  IN [thrown |-> done.thrown, kind |-> "tensor",
      shape |-> batchShape, vals |-> done.resultVals]

(***************************************************************************)
(* makeDatasetBatch                                                        *)
(***************************************************************************)
\* e[key]
Get(e, key) == IF key \in DOMAIN e THEN e[key] ELSE Undefined

\* Object.keys(e)
ObjectKeys(e) == SelectSeq(KeyOrder, LAMBDA k : k \in DOMAIN e)

\* the rotation with a fault: the values are collected last record first
RotatedReversed(elements, key) ==
  [i \in 1..Len(elements) |-> Get(elements[Len(elements) + 1 - i], key)]

\* rotated[key] after the loop over the elements
Rotated(elements, key) == [i \in 1..Len(elements) |-> Get(elements[i], key)]

\* the body of the second keys.forEach, for one key
FieldResult(elements, key) ==
  LET column == Rotated(elements, key) IN
  IF Len(column) # Len(elements)
    THEN [thrown |-> SanityError, kind |-> "none", shape |-> <<>>, vals |-> <<>>]
  ELSE IF column[1].kind = "string"
    THEN [thrown |-> "", kind |-> "strings", shape |-> <<>>, vals |-> column]
  ELSE batchConcat(column)

makeDatasetBatch(elements) ==
  LET keys == ObjectKeys(elements[1])
      fields == [k \in Range(keys) |-> FieldResult(elements, k)]
      failing == {i \in 1..Len(keys) : fields[keys[i]].thrown # ""}
      first == CHOOSE i \in failing : \A j \in failing : i <= j
  IN IF failing = {}
       THEN [kind |-> "batch", error |-> "", result |-> fields, disposed |-> TRUE]
       ELSE [kind |-> "error", error |-> fields[keys[first]].thrown,
             result |-> <<>>, disposed |-> FALSE]

(***************************************************************************)
(* The records of the model.                                               *)
(***************************************************************************)
R1 == [a |-> Num(1), b |-> Str("x")]
R2 == [a |-> Num(2 ^ 24 + 1)]
R3 == [a |-> Str("7"), b |-> Num(2)]
R4 == [a |-> Arr(<<1, 2>>), b |-> Str("y")]
R5 == [a |-> Ten(<<2>>, <<3, 4>>), b |-> Str("y")]
R6 == [a |-> Ten(<<1, 2>>, <<5, 6>>), b |-> Str("z")]
R7 == [b |-> Str("x")]
R8 == [a |-> Arr(<<1, 2, 3>>)]

Pool == {R1, R2, R3, R4, R5, R6, R7, R8}

SeqsUpTo(S, n) == UNION {[1..k -> S] : k \in 0..n}

Windows == SeqsUpTo(Pool, MaxWin) \ {<<>>}

NoOutcome == [kind |-> "none", error |-> "", result |-> <<>>, disposed |-> FALSE]

\* the effect of elements.forEach(dispose) on the release counts
Dispose(counts, idxs) ==
  [i \in DOMAIN counts |-> IF i \in idxs THEN counts[i] + 1 ELSE counts[i]]

\* the records an upstream Dataset of the model may hold
StreamPool == {R1, R4, R5}

Bases == SeqsUpTo(StreamPool, MaxLen)

BatchSizes == -1..MaxBatchSize

VARIABLES dataset, streams, window, outcome, released

vars == <<dataset, streams, window, outcome, released>>

Streams == {1, 2}

(***************************************************************************)
(* BatchDataset                                                            *)
(***************************************************************************)
NoDataset == [constructed |-> FALSE, base |-> <<>>, batchSize |-> 0, smallLastBatch |-> FALSE]

\* constructor(base, batchSize, smallLastBatch = true); "omitted" is a call
\* without the third argument
BatchDataset(base, batchSize, arg) ==
  [constructed |-> TRUE, base |-> base, batchSize |-> batchSize,
   smallLastBatch |-> IF arg = "omitted" THEN TRUE ELSE arg = "true"]

NoStream ==
  [status |-> "none", batchSize |-> 0, smallLastBatch |-> FALSE, pos |-> 0,
   buffer |-> <<>>, out |-> <<>>, released |-> <<>>]

\* getStream with a fault: the last partial batch is always switched off
getStreamNoSmallLastBatch(self) ==
  [status |-> "open", batchSize |-> self.batchSize, smallLastBatch |-> FALSE,
   pos |-> 0, buffer |-> <<>>, out |-> <<>>,
   released |-> [i \in 1..Len(self.base) |-> 0]]

\* getStream with a fault: the last partial batch is always switched on
getStreamAlwaysSmallLastBatch(self) ==
  [status |-> "open", batchSize |-> self.batchSize, smallLastBatch |-> TRUE,
   pos |-> 0, buffer |-> <<>>, out |-> <<>>,
   released |-> [i \in 1..Len(self.base) |-> 0]]

\* getStream with a fault: the upstream stream is kept and shared, so a new
\* stream of batches starts where the furthest one stands
getStreamSharedCursor(self) ==
  [status |-> "open", batchSize |-> self.batchSize,
   smallLastBatch |-> self.smallLastBatch,
   pos |-> CHOOSE p \in {streams[s].pos : s \in Streams} :
             \A s \in Streams : streams[s].pos <= p,
   buffer |-> <<>>, out |-> <<>>,
   released |-> [i \in 1..Len(self.base) |-> 0]]

\* this.base.getStream().batch(this.batchSize, this.smallLastBatch)
\*   .map(makeDatasetBatch): a new upstream cursor, an empty window
getStream(self) ==
  [status |-> "open", batchSize |-> self.batchSize,
   smallLastBatch |-> self.smallLastBatch,
   pos |-> 0, buffer |-> <<>>, out |-> <<>>,
   released |-> [i \in 1..Len(self.base) |-> 0]]

(***************************************************************************)
(* The stream of batches: DataStream.batch buffers the upstream records    *)
(* into windows, DataStream.map hands each window to makeDatasetBatch.     *)
(***************************************************************************)
\* the map stage on one window: the batch, or the error thrown to the pull;
\* first and size record which upstream records the window held
MapWindow(st, first) ==
  LET o == makeDatasetBatch(st.buffer)
      n == Len(st.buffer)
  IN [st EXCEPT
        !.out = Append(@, [kind |-> o.kind, error |-> o.error, result |-> o.result,
                           first |-> first, size |-> n]),
        !.released = IF o.disposed THEN Dispose(@, first..(first + n - 1)) ELSE @,
        !.buffer = <<>>]

\* the batch stage receives one more upstream record
BatchPush(st, base) ==
  LET pushed == [st EXCEPT !.pos = @ + 1, !.buffer = Append(@, base[st.pos + 1])]
  IN IF Len(pushed.buffer) = st.batchSize
       THEN MapWindow(pushed, pushed.pos - Len(pushed.buffer) + 1)
       ELSE pushed

\* the batch stage finds the upstream exhausted
BatchEnd(st) ==
  LET flushed == IF st.smallLastBatch /\ st.buffer # <<>>
                   THEN MapWindow(st, st.pos - Len(st.buffer) + 1)
                   ELSE [st EXCEPT !.buffer = <<>>]
  IN [flushed EXCEPT !.status = "drained"]

(***************************************************************************)
(* Actions                                                                 *)
(***************************************************************************)
Init ==
  /\ dataset = NoDataset
  /\ streams = [s \in Streams |-> NoStream]
  /\ window = <<>>
  /\ outcome = NoOutcome
  /\ released = <<>>

Construct(base, batchSize, arg) ==
  /\ ~dataset.constructed
  /\ dataset' = BatchDataset(base, batchSize, arg)
  /\ UNCHANGED <<streams, window, outcome, released>>

GetStream(s) ==
  /\ dataset.constructed
  /\ streams[s].status = "none"
  /\ streams' = [streams EXCEPT ![s] = getStream(dataset)]
  /\ UNCHANGED <<dataset, window, outcome, released>>

PullRecord(s) ==
  /\ streams[s].status = "open"
  /\ streams[s].pos < Len(dataset.base)
  /\ streams' = [streams EXCEPT ![s] = BatchPush(@, dataset.base)]
  /\ UNCHANGED <<dataset, window, outcome, released>>

PullEnd(s) ==
  /\ streams[s].status = "open"
  /\ streams[s].pos = Len(dataset.base)
  /\ streams' = [streams EXCEPT ![s] = BatchEnd(@)]
  /\ UNCHANGED <<dataset, window, outcome, released>>

Next ==
  \/ \E base \in Bases, batchSize \in BatchSizes, arg \in {"true", "false", "omitted"} :
       Construct(base, batchSize, arg)
  \/ \E s \in Streams : GetStream(s)
  \/ \E s \in Streams : PullRecord(s)
  \/ \E s \in Streams : PullEnd(s)

Spec == Init /\ [][Next]_vars

InitBatch ==
  /\ dataset = NoDataset
  /\ streams = [s \in Streams |-> NoStream]
  /\ window \in Windows
  /\ outcome = NoOutcome
  /\ released = [i \in 1..Len(window) |-> 0]

MakeBatch ==
  /\ outcome = NoOutcome
  /\ outcome' = makeDatasetBatch(window)
  /\ released' = IF outcome'.disposed THEN Dispose(released, 1..Len(window)) ELSE released
  /\ UNCHANGED <<dataset, streams, window>>

NextBatch == MakeBatch

SpecBatch == InitBatch /\ [][NextBatch]_vars

(***************************************************************************)
(* Vocabulary of the properties: a value's kind, shape and flat values as  *)
(* the data model states them.                                             *)
(***************************************************************************)
NumericKinds == {"number", "array", "tensor"}

ValueShape(v) ==
  CASE v.kind = "number" -> <<>>
    [] v.kind = "array" -> <<Len(v.xs)>>
    [] v.kind = "tensor" -> v.shape

FlatValues(v) ==
  CASE v.kind = "number" -> <<v.n>>
    [] v.kind = "array" -> v.xs
    [] v.kind = "tensor" -> v.vals

\* makeDatasetBatch has run on the window
Applied == outcome # NoOutcome

\* every record of the window has key k, with a numeric value of one shape
UniformNumeric(w, k) ==
  \A i \in 1..Len(w) :
    /\ k \in DOMAIN w[i]
    /\ w[i][k].kind \in NumericKinds
    /\ ValueShape(w[i][k]) = ValueShape(w[1][k])

\* every record of the window has key k, with a string value
UniformText(w, k) ==
  \A i \in 1..Len(w) : k \in DOMAIN w[i] /\ w[i][k].kind = "string"

\* C4: whenever a record after the first lacks a key of the first record,
\* producing the window's batch fails and no batch is emitted.
C4_MissingKeyFails ==
  (/\ Applied
   /\ \E i \in 2..Len(window) : \E k \in DOMAIN window[1] : k \notin DOMAIN window[i])
  => outcome.kind = "error"

\* C5: whenever a field's values in one window mix text with numeric kinds,
\* producing the batch fails; no batch is emitted for such a window.
C5_MixedKindsFail ==
  (/\ Applied
   /\ \E k \in DOMAIN window[1] : \E i \in 2..Len(window) :
        /\ k \in DOMAIN window[i]
        /\ (window[1][k].kind = "string") # (window[i][k].kind = "string"))
  => outcome.kind = "error"

\* C6: for a numeric field, whenever some record's numeric value has a shape
\* different from the shape of the first record's value, the window fails with
\* the shape error and no batch is emitted for it.
C6_ShapeMismatchFails ==
  (/\ Applied
   /\ \E k \in DOMAIN window[1] :
        /\ window[1][k].kind \in NumericKinds
        /\ \E i \in 2..Len(window) :
             /\ k \in DOMAIN window[i]
             /\ window[i][k].kind \in NumericKinds
             /\ ValueShape(window[i][k]) # ValueShape(window[1][k]))
  => /\ outcome.kind = "error"
     /\ outcome.error = ShapeError
     /\ outcome.result = <<>>

\* the example of the specification: [{a:[1,2]},{a:[1,2,3]}] has failed
C6_Witness ==
  /\ Applied
  /\ window = <<R4, R8>>
  /\ outcome.kind = "error"

\* the buffer of field k lays the records out one after the other, each entry
\* related to the record's flat value by Stored
Layout(w, k, r, Stored(_)) ==
  LET S == ValueShape(w[1][k])
      p == Product(S)
      n == Len(w)
  IN /\ r.kind = "tensor"
     /\ r.shape = <<n>> \o S
     /\ Len(r.vals) = n * p
     /\ \A i \in 0..(n - 1) : \A j \in 1..p :
          r.vals[i * p + j] = Stored(FlatValues(w[i + 1][k])[j])

\* a window whose every field is uniform yields a batch
UniformWindowBatches ==
  (\A k \in DOMAIN window[1] : UniformNumeric(window, k) \/ UniformText(window, k))
  => outcome.kind = "batch"

\* C7 as stated: the buffer holds each record's flat values themselves, at
\* positions i*product(S) .. (i+1)*product(S)-1.
C7_BufferHoldsValues ==
  Applied =>
    /\ UniformWindowBatches
    /\ \A k \in DOMAIN window[1] :
         (UniformNumeric(window, k) /\ outcome.kind = "batch")
         => Layout(window, k, outcome.result[k], LAMBDA x : F32(x))

\* C7 amended: the buffer holds each record's flat values converted to 32-bit
\* floats, at positions i*product(S) .. (i+1)*product(S)-1, and has shape
\* [n, ...S].
C7_BufferHoldsFloat32Values ==
  Applied =>
    /\ UniformWindowBatches
    /\ \A k \in DOMAIN window[1] :
         (UniformNumeric(window, k) /\ outcome.kind = "batch")
         => Layout(window, k, outcome.result[k], LAMBDA x : F32(ToFloat32(x)))

\* two records of two values each have been laid out in one buffer
C7_Witness ==
  /\ Applied
  /\ window = <<R4, R5>>
  /\ outcome.kind = "batch"
  /\ outcome.result["a"].shape = <<2, 2>>
  /\ outcome.result["a"].vals = <<F32(1), F32(2), F32(3), F32(4)>>

(***************************************************************************)
(* Properties of the stream of batches.                                    *)
(***************************************************************************)
CeilDiv(l, b) == (l + b - 1) \div b

LastSize(l, b) == IF l % b = 0 THEN b ELSE l % b

Batches(out) == SelectSeq(out, LAMBDA o : o.kind = "batch")

\* the batch holds n records: every field has n entries along the batch axis
HoldsRecords(result, n) ==
  \A k \in DOMAIN result :
    IF result[k].kind = "strings" THEN Len(result[k].vals) = n
    ELSE result[k].shape[1] = n

\* entry i of a field of a batch is the value v of a record
EntryFrom(r, i, v) ==
  IF r.kind = "strings" THEN r.vals[i] = v
  ELSE /\ v.kind \in NumericKinds
       /\ LET p == Product(Tail(r.shape)) IN
          /\ Len(FlatValues(v)) = p
          /\ \A j \in 1..p : r.vals[(i - 1) * p + j] = F32(ToFloat32(FlatValues(v)[j]))

\* the batch is built, entry by entry, from the records first .. first+n-1
BuiltFrom(result, base, first, n) ==
  /\ first >= 1
  /\ first + n - 1 <= Len(base)
  /\ HoldsRecords(result, n)
  /\ \A k \in DOMAIN result : \A i \in 1..n :
       EntryFrom(result[k], i, Get(base[first + i - 1], k))

Drained(s, slb) ==
  /\ streams[s].status = "drained"
  /\ dataset.smallLastBatch = slb
  /\ dataset.batchSize > 0

\* C1 as stated: with smallLastBatch, a drained stream has emitted exactly
\* ceil(L/B) batches, all of B records but the last, of L mod B (or B) records.
C1_CeilBatchesEmitted ==
  \A s \in Streams : Drained(s, TRUE) =>
    LET L == Len(dataset.base)
        B == dataset.batchSize
        bs == Batches(streams[s].out)
    IN /\ Len(bs) = CeilDiv(L, B)
       /\ \A k \in 1..Len(bs) :
            HoldsRecords(bs[k].result, IF k < Len(bs) THEN B ELSE LastSize(L, B))

\* C1 amended: with smallLastBatch, a drained stream has made exactly
\* ceil(L/B) windows, all of B records but the last, of L mod B (or B) records;
\* each window was emitted as a batch of that many records or failed its pull,
\* so exactly ceil(L/B) batches are emitted when no window fails.
C1_CeilWindowsMade ==
  \A s \in Streams : Drained(s, TRUE) =>
    LET L == Len(dataset.base)
        B == dataset.batchSize
        out == streams[s].out
    IN /\ Len(out) = CeilDiv(L, B)
       /\ \A k \in 1..Len(out) :
            /\ out[k].size = IF k < Len(out) THEN B ELSE LastSize(L, B)
            /\ out[k].kind \in {"batch", "error"}
            /\ out[k].kind = "batch" => HoldsRecords(out[k].result, out[k].size)
            /\ out[k].kind = "error" =>
                 makeDatasetBatch(SubSeq(dataset.base, (k - 1) * B + 1,
                                         (k - 1) * B + out[k].size)).kind = "error"

\* three records in batches of two: a full batch and a smaller last one
C1_Witness ==
  \E s \in Streams :
    /\ Drained(s, TRUE)
    /\ dataset.batchSize = 2
    /\ Len(dataset.base) = 3
    /\ Len(Batches(streams[s].out)) = 2
    /\ HoldsRecords(streams[s].out[2].result, 1)

\* C2 as stated: without smallLastBatch, a drained stream has emitted exactly
\* floor(L/B) batches of B records each.
C2_FloorBatchesEmitted ==
  \A s \in Streams : Drained(s, FALSE) =>
    LET L == Len(dataset.base)
        B == dataset.batchSize
        bs == Batches(streams[s].out)
    IN /\ Len(bs) = L \div B
       /\ \A k \in 1..Len(bs) : HoldsRecords(bs[k].result, B)

\* C2 amended: without smallLastBatch, a drained stream has made exactly
\* floor(L/B) windows of B records each, every one emitted as a batch of B
\* records or failing its pull; the trailing L mod B records are in no window,
\* are dropped from the buffer and reach no batch.
C2_FloorWindowsMade ==
  \A s \in Streams : Drained(s, FALSE) =>
    LET L == Len(dataset.base)
        B == dataset.batchSize
        out == streams[s].out
    IN /\ Len(out) = L \div B
       /\ streams[s].buffer = <<>>
       /\ \A k \in 1..Len(out) :
            /\ out[k].size = B
            /\ out[k].first + B - 1 <= (L \div B) * B
            /\ out[k].kind \in {"batch", "error"}
            /\ out[k].kind = "batch" =>
                 BuiltFrom(out[k].result, dataset.base, (k - 1) * B + 1, B)
       /\ \A i \in ((L \div B) * B + 1)..L : streams[s].released[i] = 0

\* three records in batches of two: one batch, the third record dropped
C2_Witness ==
  \E s \in Streams :
    /\ Drained(s, FALSE)
    /\ dataset.batchSize = 2
    /\ Len(dataset.base) = 3
    /\ Len(streams[s].out) = 1
    /\ streams[s].out[1].kind = "batch"

\* C3: every record of a window that makeDatasetBatch has processed is
\* released exactly once, whether the window gave a batch or an error.
C3_WindowRecordsReleasedOnce ==
  Applied => \A i \in 1..Len(window) : released[i] = 1

\* C8: no BatchDataset with a non-positive batchSize exists.
C8_BatchSizePositive == dataset.constructed => dataset.batchSize > 0

\* C9 as stated: the k-th emitted batch (k from 0) is built, entry by entry and
\* in order, from the upstream records k*B .. k*B+size-1.
C9_KthBatchFromKthRun ==
  \A s \in Streams :
    LET bs == Batches(streams[s].out)
        B == dataset.batchSize
    IN \A k \in 1..Len(bs) :
         BuiltFrom(bs[k].result, dataset.base, (k - 1) * B + 1, bs[k].size)

\* C9 amended: the k-th window (k from 0, counting the windows whose batch
\* failed) holds the upstream records k*B .. k*B+size-1, and a batch emitted
\* for it is built, entry by entry and in order, from those records.
C9_KthWindowFromKthRun ==
  \A s \in Streams :
    LET out == streams[s].out
        B == dataset.batchSize
    IN \A k \in 1..Len(out) :
         /\ out[k].first = (k - 1) * B + 1
         /\ out[k].kind = "batch" =>
              BuiltFrom(out[k].result, dataset.base, (k - 1) * B + 1, out[k].size)

\* a second batch of two different records has been emitted
C9_Witness ==
  \E s \in Streams :
    /\ dataset.batchSize = 1
    /\ dataset.base = <<R1, R4, R5>>
    /\ Len(Batches(streams[s].out)) = 3
    /\ streams[s].out[3].result["a"].vals = <<F32(3), F32(4)>>

\* what a stream that has pulled pos records from the first one on holds
ExpectedWindows(st) ==
  LET B == dataset.batchSize
      full == IF B > 0 THEN st.pos \div B ELSE 0
      rest == st.pos - full * B
      last == IF st.status = "drained" /\ dataset.smallLastBatch /\ rest > 0
                THEN <<[first |-> full * B + 1, size |-> rest]>> ELSE <<>>
  IN [k \in 1..full |-> [first |-> (k - 1) * B + 1, size |-> B]] \o last

\* C10: each stream of one BatchDataset holds the batch sequence that starts
\* at the first upstream record and depends on its own pulls only.
C10_StreamsIndependent ==
  \A s \in Streams : streams[s].status # "none" =>
    LET st == streams[s]
        ws == ExpectedWindows(st)
        used == IF ws = <<>> THEN 0 ELSE ws[Len(ws)].first + ws[Len(ws)].size - 1
    IN /\ st.pos <= Len(dataset.base)
       /\ Len(st.out) = Len(ws)
       /\ \A k \in 1..Len(ws) :
            LET o == makeDatasetBatch(SubSeq(dataset.base, ws[k].first,
                                             ws[k].first + ws[k].size - 1))
            IN /\ st.out[k].kind = o.kind
               /\ st.out[k].result = o.result
       /\ st.buffer = IF st.status = "drained" THEN <<>>
                      ELSE SubSeq(dataset.base, used + 1, st.pos)

\* two streams of one BatchDataset stand at different places, each with a
\* first batch built from the first record
C10_Witness ==
  /\ streams[1].status = "open"
  /\ streams[2].status = "drained"
  /\ streams[1].pos < streams[2].pos
  /\ Len(streams[1].out) = 1
  /\ Len(streams[2].out) = 3
  /\ streams[1].out[1] = streams[2].out[1]

=============================================================================
